---- MODULE Spec2Model ----
(***************************************************************************)
(* Model of src/main.cpp: the 2-D Euclidean TSP heuristic (rounded         *)
(* distance matrix, k-nearest candidate lists, nearest-neighbour greedy    *)
(* construction, candidate-restricted 2-opt, time-bounded orchestrator).   *)
(*                                                                         *)
(* Vectors are modelled as functions on 0..size-1, so that indices are the *)
(* indices of the source.  Time is counted in tenths of a second.          *)
(***************************************************************************)
EXTENDS Integers, FiniteSets, Sequences, TLC

\* ------------------------------------------------------------------ bounds
\* Largest number of input points.
MaxN == 4
\* Points have integer coordinates <<x, y>> in (0..MaxX) x (0..MaxY).
MaxX == 2
MaxY == 1
\* Candidate-list sizes K range over 0..MaxK (the k argument of KNearestNeighbors).
MaxK == 2
\* Clock readings (tenths of a second since start_time) range over 0..MaxTime.
MaxTime == 20

\* ------------------------------------------------------- program constants
\* const double time_limit_seconds = 1.9, in tenths of a second.
TimeLimitTenths == 19
\* One second, in tenths of a second (chrono::seconds).
TenthsPerSecond == 10
\* numeric_limits<int>::max()
INT_MAX == 2147483647

VARIABLES
    points,          \* main: vector<Point> points (input), index -> <<x, y>>
    K,               \* the k argument of KNearestNeighbors (solveTSP passes 20)
    distances,       \* DistanceMatrix::distances
    neighbors,       \* KNearestNeighbors::neighbors
    tour,            \* solveTSP: tour (twoOpt mutates it in place)
    prev_tour,       \* solveTSP: prev_tour
    improved,        \* solveTSP: improved
    current_time,    \* solveTSP: current_time - start_time, in tenths of a second
    locallyOptimal,  \* twoOpt: locallyOptimal
    u_i,             \* twoOpt: u_i
    pc,              \* position in the program
    oob,             \* a vector element outside the vector's bounds was accessed
    calls,           \* history: number of twoOpt invocations so far
    moved,           \* history: the running twoOpt invocation changed the tour
    first_tour       \* history: the tour the first twoOpt invocation returned

vars == <<points, K, distances, neighbors, tour, prev_tour, improved, current_time,
          locallyOptimal, u_i, pc, oob, calls, moved, first_tour>>

\* The number of points, points.size().
N == Cardinality(DOMAIN points)

Nodes == 0 .. (N - 1)

Min(a, b) == IF a < b THEN a ELSE b

\* ---------------------------------------------------------- DistanceMatrix
\* round(sqrt(s)) for an integer s >= 0: the integer r with
\* (r - 1/2)^2 <= s < (r + 1/2)^2 (sqrt(s) is never half-way for an integer s).
RoundSqrt(s) ==
    CHOOSE r \in 0 .. s :
        /\ 4 * s < (2 * r + 1) * (2 * r + 1)
        /\ (r = 0 \/ (2 * r - 1) * (2 * r - 1) <= 4 * s)

calcDistance(p1, p2) ==
    LET dx == p1[1] - p2[1]
        dy == p1[2] - p2[2]
    IN  RoundSqrt(dx * dx + dy * dy)

\* The matrix the constructor builds: zero diagonal, the upper triangle computed
\* and mirrored into the lower one.
DistanceMatrix(pts) ==
    LET n == Cardinality(DOMAIN pts)
    IN  [i \in 0 .. (n - 1) |->
            [j \in 0 .. (n - 1) |->
                IF i = j THEN 0
                ELSE IF i < j THEN calcDistance(pts[i], pts[j])
                ELSE calcDistance(pts[j], pts[i])]]

getDistance(i, j) == distances[i][j]

\* ------------------------------------------------------- KNearestNeighbors
\* Mutant of PairLess: equal distances ordered by descending node index.
PairLess_TiesDescending(a, b) == a[1] < b[1] \/ (a[1] = b[1] /\ a[2] > b[2])

\* operator< of pair<uint32_t, uint16_t>: by distance, then by node index.
PairLess(a, b) == a[1] < b[1] \/ (a[1] = b[1] /\ a[2] < b[2])

\* dist_pairs of node i after the sort: position r holds the pair that has exactly
\* r smaller pairs (the pairs are pairwise distinct: their node indices differ).
SortedPairs(dm, i) ==
    LET n     == Cardinality(DOMAIN dm)
        pairs == {<<dm[i][j], j>> : j \in (0 .. (n - 1)) \ {i}}
    IN  [r \in 0 .. (Cardinality(pairs) - 1) |->
            CHOOSE p \in pairs : Cardinality({q \in pairs : PairLess(q, p)}) = r]

\* The neighbors table the constructor builds: k = min(k, n - 1), each row of
\* k + 1 entries, the first k from the sorted pairs, the last the node itself.
KNearestNeighbors(dm, k0) ==
    LET n == Cardinality(DOMAIN dm)
        k == Min(k0, n - 1)
    IN  [i \in 0 .. (n - 1) |->
            [j \in 0 .. k |->
                IF j < k THEN SortedPairs(dm, i)[j][2] ELSE i]]

\* ----------------------------------------------------- calculateTourLength
RECURSIVE LengthFrom(_, _)
LengthFrom(t, i) ==
    LET n == Cardinality(DOMAIN t)
    IN  IF i >= n THEN 0
        ELSE distances[t[i]][t[(i + 1) % n]] + LengthFrom(t, i + 1)

calculateTourLength(t) == LengthFrom(t, 0)

\* ------------------------------------------------------ greedyConstruction
\* int dist = distances.getDistance(...): the uint32_t value converted to int.
Int32(d) == IF d > INT_MAX THEN ((d - INT_MAX) - INT_MAX) - 2 ELSE d

\* Mutant of Closer: <= for <, so the last of several nearest nodes wins.
Closer_OrEqual(dist, min_dist) == dist <= min_dist

\* if (dist < min_dist)
Closer(dist, min_dist) == dist < min_dist

\* The inner loop over j: returns best_next (-1 when nothing was selected).
RECURSIVE GreedyScan(_, _, _, _, _)
GreedyScan(last, used, j, best_next, min_dist) ==
    IF j >= N THEN best_next
    ELSE IF j \notin used /\ Closer(Int32(getDistance(last, j)), min_dist)
         THEN GreedyScan(last, used, j + 1, j, Int32(getDistance(last, j)))
         ELSE GreedyScan(last, used, j + 1, best_next, min_dist)

\* The outer loop from position i on: [tour, oob], oob when used[best_next] was
\* written with best_next = -1.
RECURSIVE GreedyLoop(_, _, _, _)
GreedyLoop(t, used, i, bad) ==
    IF i >= N THEN [tour |-> t, oob |-> bad]
    ELSE LET best_next == GreedyScan(t[i - 1], used, 0, -1, INT_MAX)
         IN  IF best_next = -1
             THEN [tour |-> [t EXCEPT ![i] = best_next % 65536], oob |-> TRUE]
             ELSE GreedyLoop([t EXCEPT ![i] = best_next], used \cup {best_next},
                             i + 1, bad)

\* vector<uint16_t> tour(n); tour[0] = start; used[start] = true; then the loop.
\* With n = 0 both writes fall outside the (empty) vectors.
greedyConstruction ==
    IF N = 0 THEN [tour |-> << >>, oob |-> TRUE]
    ELSE GreedyLoop([i \in Nodes |-> 0], {0}, 1, FALSE)

\* ------------------------------------------------------------------ twoOpt
\* find(tour.begin(), tour.end(), w) - tour.begin(): the first position of w,
\* tour.size() when w is absent.
Find(t, w) ==
    LET n    == Cardinality(DOMAIN t)
        hits == {i \in DOMAIN t : t[i] = w}
    IN  IF hits = {} THEN n ELSE CHOOSE i \in hits : \A h \in hits : i <= h

\* Mutant of Improves: the comparison turned round.
Improves_Reversed(new_dist, curr_dist) == new_dist > curr_dist

\* if (new_dist < curr_dist)
Improves(new_dist, curr_dist) == new_dist < curr_dist

NoMove == -1

\* The loop over the candidate list of u = t[ui] from entry k on: the position
\* w_i of the first candidate that passes the adjacency test and improves,
\* NoMove when the list is exhausted.  curr_dist and new_dist are uint32_t; with
\* the coordinates of the model the sums stay far below 2^32.
RECURSIVE FirstImproving(_, _, _)
FirstImproving(t, ui, k) ==
    LET n == Cardinality(DOMAIN t)
        u == t[ui]
        v == t[ui + 1]
    IN  IF k >= Cardinality(DOMAIN neighbors[u]) THEN NoMove
        ELSE LET w   == neighbors[u][k]
                 w_i == Find(t, w)
             IN  IF w_i = ui \/ w_i = (ui + 1) % n
                 THEN FirstImproving(t, ui, k + 1)
                 ELSE LET z         == t[(w_i + 1) % n]
                          curr_dist == getDistance(u, v) + getDistance(w, z)
                          new_dist  == getDistance(u, w) + getDistance(v, z)
                      IN  IF Improves(new_dist, curr_dist) THEN w_i
                          ELSE FirstImproving(t, ui, k + 1)

\* Mutant of Reverse: the mirrored element is assigned instead of swapped, so the
\* upper half of the range keeps its elements.
Reverse_AssignNoSwap(t, first, last) ==
    [i \in DOMAIN t |->
        IF first <= i /\ i < last /\ i < first + last - 1 - i
        THEN t[first + last - 1 - i] ELSE t[i]]

\* std::reverse on the positions [first, last) of t, for first <= last.
Reverse(t, first, last) ==
    [i \in DOMAIN t |->
        IF first <= i /\ i < last THEN t[first + last - 1 - i] ELSE t[i]]

\* ------------------------------------------------------------------- input
Grid == (0 .. MaxX) \X (0 .. MaxY)

PointSets == UNION {[0 .. (n - 1) -> Grid] : n \in 0 .. MaxN}

\* main has read the points and calls solveTSP.
Init ==
    /\ points \in PointSets
    /\ K \in 0 .. MaxK
    /\ distances = << >>
    /\ neighbors = << >>
    /\ tour = << >>
    /\ prev_tour = << >>
    /\ improved = TRUE
    /\ current_time = 0
    /\ locallyOptimal = FALSE
    /\ u_i = 0
    /\ pc = "distances"
    /\ oob = FALSE
    /\ calls = 0
    /\ moved = FALSE
    /\ first_tour = << >>

\* ---------------------------------------------------------------- solveTSP
\* DistanceMatrix distances(points);
BuildDistances ==
    /\ pc = "distances"
    /\ distances' = DistanceMatrix(points)
    /\ pc' = "neighbors"
    /\ UNCHANGED <<points, K, neighbors, tour, prev_tour, improved, current_time,
                   locallyOptimal, u_i, oob, calls, moved, first_tour>>

\* KNearestNeighbors kNeighbors(distances, K);  solveTSP passes K = 20, which
\* makes every list complete up to 21 points; K ranges over 0..MaxK so that the
\* runs with more than K + 1 points are covered.
BuildNeighbors ==
    /\ pc = "neighbors"
    /\ neighbors' = KNearestNeighbors(distances, K)
    /\ pc' = "greedy"
    /\ UNCHANGED <<points, K, distances, tour, prev_tour, improved, current_time,
                   locallyOptimal, u_i, oob, calls, moved, first_tour>>

\* vector<uint16_t> tour = greedyConstruction(points, distances);
\* An out-of-bounds write is undefined behaviour: the process faults on it, or
\* the write lands in memory the run never reads again and the run goes on.
Greedy ==
    /\ pc = "greedy"
    /\ LET g == greedyConstruction
       IN  /\ tour' = g.tour
           /\ oob' = g.oob
           /\ IF g.oob THEN pc' \in {"loop", "fault"} ELSE pc' = "loop"
    /\ UNCHANGED <<points, K, distances, neighbors, prev_tour, improved,
                   current_time, locallyOptimal, u_i, calls, moved, first_tour>>

\* while (improved) { auto current_time = steady_clock::now(); ...
\* The loop test, and the clock reading when the loop goes on.  The reading is
\* any time since start_time: the readings before it that let a round start
\* may all have been 0, so the steady clock excludes no value.
LoopTest ==
    /\ pc = "loop"
    /\ IF improved
       THEN /\ current_time' \in 0 .. MaxTime
            /\ pc' = "deadline"
       ELSE /\ pc' = "done"
            /\ UNCHANGED current_time
    /\ UNCHANGED <<points, K, distances, neighbors, tour, prev_tour, improved,
                   locallyOptimal, u_i, oob, calls, moved, first_tour>>

\* duration_cast<chrono::seconds>(d).count(): whole seconds, truncated.
Seconds(tenths) == tenths \div TenthsPerSecond

\* count >= time_limit_seconds, the count converted to double.
DeadlineReached(tenths) == Seconds(tenths) * TenthsPerSecond >= TimeLimitTenths

\* if (... >= time_limit_seconds) break;  else prev_tour = tour and twoOpt is
\* entered (locallyOptimal = false).  current_time is not read after the test.
DeadlineCheck ==
    /\ pc = "deadline"
    /\ current_time' = 0
    /\ IF DeadlineReached(current_time)
       THEN /\ pc' = "done"
            /\ UNCHANGED <<prev_tour, locallyOptimal, calls, moved>>
       ELSE /\ prev_tour' = tour
            /\ locallyOptimal' = FALSE
            /\ calls' = calls + 1
            /\ moved' = FALSE
            /\ pc' = "while"
    /\ UNCHANGED <<points, K, distances, neighbors, tour, improved, u_i, oob,
                   first_tour>>

\* twoOpt: while (!locallyOptimal) { locallyOptimal = true; for (u_i = 0; ...
\* When the loop ends twoOpt returns.
SweepTest ==
    /\ pc = "while"
    /\ IF locallyOptimal
       THEN /\ pc' = "compare"
            /\ first_tour' = IF calls = 1 THEN tour ELSE first_tour
            /\ UNCHANGED <<locallyOptimal, u_i>>
       ELSE /\ locallyOptimal' = TRUE
            /\ u_i' = 0
            /\ pc' = "for"
            /\ UNCHANGED first_tour
    /\ UNCHANGED <<points, K, distances, neighbors, tour, prev_tour, improved,
                   current_time, oob, calls, moved>>

\* One iteration of the for loop over u_i: the candidate scan and, when it
\* finds an improving candidate at w_i, the reverse of [u_i + 1, w_i + 1).
\* With w_i < u_i the range handed to std::reverse has first > last, which is
\* undefined: a `first < last` loop leaves the tour alone, a `first != last`
\* loop runs off the vector and the process faults (what the vector holds then
\* is never observed).
ScanStep ==
    /\ pc = "for"
    /\ u_i < N - 1
    /\ LET w_i == FirstImproving(tour, u_i, 0)
       IN  IF w_i = NoMove
           THEN /\ u_i' = u_i + 1
                /\ UNCHANGED <<tour, locallyOptimal, moved, pc>>
           ELSE IF u_i + 1 <= w_i + 1
           THEN /\ tour' = Reverse(tour, u_i + 1, w_i + 1)
                /\ locallyOptimal' = FALSE
                /\ moved' = TRUE
                /\ u_i' = u_i + 1
                /\ UNCHANGED pc
           ELSE \/ /\ locallyOptimal' = FALSE
                   /\ u_i' = u_i + 1
                   /\ UNCHANGED <<tour, moved, pc>>
                \/ /\ pc' = "fault"
                   /\ UNCHANGED <<tour, locallyOptimal, moved, u_i>>
    /\ UNCHANGED <<points, K, distances, neighbors, prev_tour, improved,
                   current_time, oob, calls, first_tour>>

\* The for loop ends: back to the while test.
SweepEnd ==
    /\ pc = "for"
    /\ ~(u_i < N - 1)
    /\ pc' = "while"
    /\ UNCHANGED <<points, K, distances, neighbors, tour, prev_tour, improved,
                   current_time, locallyOptimal, u_i, oob, calls, moved, first_tour>>

\* Mutant of NotImproved: > for >=, so a round of equal length counts as improved.
NotImproved_Strict(new_len, old_len) == new_len > old_len

\* calculateTourLength(tour) >= calculateTourLength(prev_tour)
NotImproved(new_len, old_len) == new_len >= old_len

\* if (...) { tour = prev_tour; improved = false; }
Compare ==
    /\ pc = "compare"
    /\ IF NotImproved(calculateTourLength(tour), calculateTourLength(prev_tour))
       THEN /\ tour' = prev_tour
            /\ improved' = FALSE
       ELSE UNCHANGED <<tour, improved>>
    /\ pc' = "loop"
    /\ UNCHANGED <<points, K, distances, neighbors, prev_tour, current_time,
                   locallyOptimal, u_i, oob, calls, moved, first_tour>>

Next ==
    \/ BuildDistances
    \/ BuildNeighbors
    \/ Greedy
    \/ LoopTest
    \/ DeadlineCheck
    \/ SweepTest
    \/ ScanStep
    \/ SweepEnd
    \/ Compare

Spec == Init /\ [][Next]_vars

\* The program is sequential and always takes its next step.
FairSpec == Spec /\ WF_vars(Next)

\* ================================================================== claims
IsPermutation(t) ==
    /\ DOMAIN t = Nodes
    /\ \A v \in Nodes : Cardinality({i \in DOMAIN t : t[i] = v}) = 1

\* greedyConstruction has returned.
TourBuilt == pc \notin {"distances", "neighbors", "greedy"}

\* twoOpt is running.
InTwoOpt == pc \in {"while", "for"}

\* The process has not faulted.
Alive == pc # "fault"

\* C1: for n >= 1 the tour is a permutation of 0..n-1 from the return of
\* greedyConstruction on: after every 2-opt move, after every sweep, and when
\* solveTSP returns.
C1_TourIsPermutation == (N >= 1 /\ TourBuilt /\ Alive) => IsPermutation(tour)

\* C1 witness: solveTSP returns a tour of four nodes that 2-opt has changed.
C1_Witness ==
    pc = "done" /\ N = 4 /\ calls = 2 /\ tour # [i \in Nodes |-> i] /\ IsPermutation(tour)

\* The successor position of position i in the cyclic tour t.
SuccPos(t, i) == (i + 1) % Cardinality(DOMAIN t)

\* The edges of the cycle t, as unordered pairs of nodes.
Edges(t) == {{t[i], t[SuccPos(t, i)]} : i \in DOMAIN t}

\* The candidate scan of the running for-iteration finds an improving candidate.
MoveFound == pc = "for" /\ u_i < N - 1 /\ FirstImproving(tour, u_i, 0) # NoMove

\* C3: whenever the scan at u_i finds an improving candidate w at w_i, the step
\* replaces the edges (u,v) and (w,z) by (u,w) and (v,z), keeps every other
\* edge, and lowers the tour length by exactly current - candidate, for w_i on
\* either side of u_i.
C3_MoveIsTwoOptSwap ==
    [][MoveFound =>
        LET w_i == FirstImproving(tour, u_i, 0)
            u   == tour[u_i]
            v   == tour[u_i + 1]
            w   == tour[w_i]
            z   == tour[SuccPos(tour, w_i)]
            current   == getDistance(u, v) + getDistance(w, z)
            candidate == getDistance(u, w) + getDistance(v, z)
        IN  /\ Edges(tour') = (Edges(tour) \ {{u, v}, {w, z}}) \cup {{u, w}, {v, z}}
            /\ calculateTourLength(tour') =
                   calculateTourLength(tour) - (current - candidate)]_vars

\* C4: from the return of greedyConstruction on, no step of the run makes the
\* tour longer: neither a move, nor a sweep, nor the restore of the snapshot;
\* so every sweep ends no longer than it began and solveTSP returns a tour no
\* longer than the greedy one.
C4_LengthNeverIncreases ==
    [][(TourBuilt /\ Alive') =>
          calculateTourLength(tour') <= calculateTourLength(tour)]_vars

\* C4 witness: a sweep of twoOpt has ended with a strictly shorter tour.
C4_Witness ==
    /\ pc = "while"
    /\ moved
    /\ calculateTourLength(tour) < calculateTourLength(prev_tour)

\* C2: twoOpt always terminates: once the sweep loop is entered it is left.
C2_TwoOptTerminates == InTwoOpt ~> ~InTwoOpt

\* No candidate 2-opt move at tour position i of t yields a strict improvement.
NoImprovingCandidateAt(t, i) ==
    LET u == t[i]
        v == t[SuccPos(t, i)]
    IN  \A k \in DOMAIN neighbors[u] :
            LET w   == neighbors[u][k]
                w_i == Find(t, w)
                z   == t[SuccPos(t, w_i)]
            IN  (w # u /\ w # v) =>
                    getDistance(u, w) + getDistance(v, z)
                        >= getDistance(u, v) + getDistance(w, z)

\* twoOpt has just returned.
TwoOptReturned == pc = "compare"

\* C5: when twoOpt returns, no candidate 2-opt move improves the tour, at any
\* position 0..n-1 of the tour, the last one (whose successor is the first
\* element) included.
C5_LocalOptimumOnReturn ==
    TwoOptReturned => \A i \in DOMAIN tour : NoImprovingCandidateAt(tour, i)

\* C6: a clock reading that has reached the time budget starts no further round:
\* solveTSP leaves the loop.
C6_NoRoundOnceBudgetReached ==
    [][(pc = "deadline" /\ current_time >= TimeLimitTenths) => pc' = "done"]_vars

\* C7: with no points solveTSP returns the empty tour and no step accesses a
\* vector element outside the vector's bounds.
C7_EmptyInputIsSafe ==
    N = 0 => /\ ~oob
             /\ pc # "fault"
             /\ (pc = "done" => tour = << >>)

\* The candidate list of node i holds exactly min(K, n-1) + 1 entries: first the
\* min(K, n-1) nearest other nodes, pairwise distinct, in ascending order of
\* (distance, index), then i itself.
CandidateListCorrect(i) ==
    LET row == neighbors[i]
        k   == Min(K, N - 1)
        d(j) == distances[i][j]
        listed == {row[a] : a \in 0 .. (k - 1)}
    IN  /\ DOMAIN row = 0 .. k
        /\ row[k] = i
        /\ listed \subseteq Nodes \ {i}
        /\ Cardinality(listed) = k
        /\ \A j \in (Nodes \ {i}) \ listed : \A c \in listed : d(j) >= d(c)
        /\ \A a, b \in 0 .. (k - 1) :
               a < b => (d(row[a]) < d(row[b])
                         \/ (d(row[a]) = d(row[b]) /\ row[a] < row[b]))

NeighborsBuilt == pc \notin {"distances", "neighbors"}

\* C8: for n >= 1 and K >= 0 every node's candidate list built by
\* KNearestNeighbors has min(K, n-1) + 1 entries: the min(K, n-1) nearest other
\* nodes, distinct, ascending by distance with ties by ascending index, then
\* the node itself.
C8_CandidateLists ==
    (N >= 1 /\ NeighborsBuilt) => \A i \in Nodes : CandidateListCorrect(i)

\* C8 witness: lists of two candidates out of three other nodes, with a tie in
\* distance between the two listed candidates of some node.
C8_Witness ==
    /\ pc = "greedy" /\ N = 4 /\ K = 2
    /\ \E i \in Nodes :
           /\ distances[i][neighbors[i][0]] = distances[i][neighbors[i][1]]
           /\ CandidateListCorrect(i)

\* greedyConstruction has just returned.
GreedyReturned == pc = "loop" /\ calls = 0

\* C9: for n >= 1 the greedy tour starts at node 0 and each later position holds
\* an unvisited node at minimal distance from its predecessor, the
\* lowest-indexed one among those at that distance.
C9_GreedyIsNearestUnvisited ==
    (N >= 1 /\ GreedyReturned) =>
        /\ tour[0] = 0
        /\ \A i \in 1 .. (N - 1) :
               LET unvisited == Nodes \ {tour[j] : j \in 0 .. (i - 1)}
                   last      == tour[i - 1]
               IN  /\ tour[i] \in unvisited
                   /\ \A c \in unvisited :
                          \/ distances[last][tour[i]] < distances[last][c]
                          \/ (distances[last][tour[i]] = distances[last][c]
                              /\ tour[i] <= c)

\* C9 witness: a greedy tour of four nodes in which a tie between two unvisited
\* nodes was decided and the nodes are not visited in index order.
C9_Witness ==
    /\ GreedyReturned /\ N = 4
    /\ tour # [i \in Nodes |-> i]
    /\ \E c \in Nodes \ {tour[0], tour[1]} :
           distances[0][c] = distances[0][tour[1]]

\* C10: twoOpt is invoked at most twice; a second invocation applies no move
\* and leaves the tour as it found it; and when solveTSP stops because a round
\* did not improve (the deadline did not fire), it returns the tour the first
\* invocation returned.
C10_AtMostTwoRounds ==
    /\ calls <= 2
    /\ (calls = 2 /\ pc \in {"while", "for", "compare"}) =>
           (~moved /\ tour = prev_tour /\ prev_tour = first_tour)
    /\ (pc = "done" /\ ~improved) => tour = first_tour

\* C10 witness: solveTSP has returned after a second round that changed nothing,
\* the first round having shortened the greedy tour.
C10_Witness ==
    /\ pc = "done" /\ ~improved /\ calls = 2
    /\ tour = first_tour
    /\ N >= 4

====
